---------------------------- MODULE Spec2Model ----------------------------
(***************************************************************************)
(* A model of the social-uni backend: the user store, the core controller  *)
(* (core/controller/userController.ts: follow, unfollow, getUserId,        *)
(* updateUserId, searchUsers), the routed /users/* handlers behind the     *)
(* authentication gate with their image uploads, and the token issuing     *)
(* login / signup handlers.                                                *)
(*                                                                         *)
(* Identifiers are strings, as in the code (ObjectId strings pushed into   *)
(* Mixed arrays).  Every await on the store is one atomic step.            *)
(***************************************************************************)
EXTENDS Integers, Sequences, FiniteSets, TLC

VARIABLES
    users,      \* the user collection: id -> document (or NoDoc)
    proc,       \* core controller: one in-flight request per handler slot
    nreq,       \* number of requests accepted so far (bounded by MaxReq)
    hist,       \* history: the last calls that ran alone
    overlapped, \* history: two core calls have been in progress at once
    req,        \* HTTP surface: one request per connection slot
    now,        \* the clock, in seconds
    issued,     \* the tokens login and signup have handed out
    cloudCalls, \* number of calls made to the image host
    images      \* the URLs of the images the host holds

vars ==
    <<users, proc, nreq, hist, overlapped, req, now, issued, cloudCalls, images>>

coreVars == <<proc, hist, overlapped>>
httpVars == <<req, now, issued, cloudCalls, images>>

(***************************************************************************)
(* Bounds                                                                  *)
(***************************************************************************)
MaxReq == 4      \* core controller calls served in a run
MaxHttp == 3     \* HTTP requests served in a run
MaxDays == 1     \* the clock is read around 0 .. MaxDays token lifetimes
MaxCalls == 3    \* routed service calls served in a run

ExistingIds == {"u1", "u2", "u3"}   \* documents present at start
AllIds == ExistingIds \cup {"u4"}   \* u4: a valid id with no document
Undefined == "undefined"            \* JavaScript undefined
Callers == {"u1", "u2", Undefined}  \* req.user?.id of the requests served
Procs == {1, 2}                     \* concurrently served requests
Slots == {1}                        \* HTTP connections

(***************************************************************************)
(* Documents                                                               *)
(***************************************************************************)
NoDoc == [exists |-> FALSE]

\* a document removed by findByIdAndDelete: its id is never handed out again
Gone == [exists |-> FALSE, deleted |-> TRUE]

\* schema defaults; an image URL is a number, 0 standing for ""; updatedAt
\* is kept by the schema's timestamps option; bio stands for the default text
NewDoc(email, password) ==
    [exists |-> TRUE, email |-> email, password |-> password,
     username |-> Undefined, full_name |-> "", bio |-> "hey", location |-> "",
     profile_image |-> 0, cover_image |-> 0,
     following |-> <<>>, followers |-> <<>>, connections |-> <<>>, ver |-> 0,
     updatedAt |-> 0]

Range(s) == {s[i] : i \in 1..Len(s)}

\* Array.prototype.includes
Includes(s, x) == x \in Range(s)

\* Array.prototype.filter(id => id.toString() !== x)
Without(s, x) == SelectSeq(s, LAMBDA y : y # x)

\* number of occurrences of x in s
Count(s, x) == Cardinality({i \in 1..Len(s) : s[i] = x})

\* the three relation lists of every document
Rel(u) ==
    [i \in AllIds |->
        IF u[i].exists
        THEN <<u[i].following, u[i].followers, u[i].connections>>
        ELSE <<>>]

(***************************************************************************)
(* Store operations as mongoose sends them                                 *)
(***************************************************************************)
\* User.findById
FindById(u, id) == u[id]

\* doc.save() after array.push(x): the delta is {$push: {field: x}} with
\* {$inc: {__v: 1}} and no version condition; it fails if the document is gone.
SavePushOk(u, id) == u[id].exists

SavePush(u, id, field, x) ==
    [u EXCEPT ![id] = [@ EXCEPT ![field] = Append(@, x), !.ver = @ + 1,
                                !.updatedAt = now]]

\* doc.save() after doc.field = newArray: the delta is {$set: {field: newArray}}
\* conditioned on the __v that was loaded; a mismatch raises VersionError.
SaveSetOk(u, id, doc) == u[id].exists /\ u[id].ver = doc.ver

SaveSet(u, id, field, value) ==
    [u EXCEPT ![id] = [@ EXCEPT ![field] = value, !.ver = @ + 1,
                                !.updatedAt = now]]

(***************************************************************************)
(* Core controller: request slots                                          *)
(***************************************************************************)
\* req.body and req.files of the core routes; a key is Undefined when absent
\* (bio stands for bio, location and full_name, which are handled alike)
NoInput ==
    [username |-> Undefined, bio |-> Undefined, profile |-> FALSE,
     input |-> [kind |-> "undefined", text |-> <<>>]]

Idle ==
    [pc |-> "idle", op |-> "", userId |-> Undefined, target |-> Undefined,
     user |-> NoDoc, other |-> NoDoc, status |-> 0, message |-> "",
     calls |-> 0, solo |-> TRUE, pre |-> <<>>,
     body |-> NoInput, finalUsername |-> Undefined, data |-> {}]

Active(p) == proc[p].pc # "idle"

Quiet == \A p \in Procs : ~Active(p)

\* res.status(code).json({message}) ends the request
Respond(r, code, msg) == [r EXCEPT !.pc = "done", !.status = code, !.message = msg]

Answered(r) == r.pc = "done"

\* a request enters slot p; the history notes whether it runs alone
Enter(p, op, uid, tid) ==
    [Idle EXCEPT !.op = op, !.userId = uid, !.target = tid,
                 !.solo = \A q \in Procs \ {p} : ~Active(q),
                 !.pre = users]

\* slot p moves to r (an answered request frees its slot); the other slots
\* learn that a request ran beside them
Beside(p, r) ==
    [q \in Procs |->
        IF q = p THEN (IF Answered(r) THEN Idle ELSE r)
        ELSE IF Active(q) THEN [proc[q] EXCEPT !.solo = FALSE]
        ELSE proc[q]]

Entry(r) ==
    [op |-> r.op, userId |-> r.userId, target |-> r.target,
     status |-> r.status, message |-> r.message, calls |-> r.calls, pre |-> r.pre,
     body |-> r.body, data |-> r.data]

\* a follow that succeeded
FollowedOk(e) == e.op = "follow" /\ e.status = 200

\* The history holds calls that ran alone (no other call in progress from
\* their first step to their answer): the last one answered and, before it,
\* the one answered just before when that was a follow that succeeded.  A
\* call that ran beside another one clears the history.
Note(r) ==
    IF ~Answered(r) THEN hist
    ELSE IF ~r.solo THEN <<>>
    ELSE IF Len(hist) > 0 /\ FollowedOk(hist[Len(hist)])
         THEN <<hist[Len(hist)], Entry(r)>>
         ELSE <<Entry(r)>>

Step(p, r) ==
    /\ proc' = Beside(p, r)
    /\ hist' = Note(r)
    /\ overlapped' = (overlapped \/ \E q \in Procs \ {p} : Active(q))

(***************************************************************************)
(* UserController.followUser -> UserService.addFollowing                   *)
(***************************************************************************)
\* followUser without the userId === followId test
FollowEnter_NoSelfTest(r, u) ==
    IF r.userId = Undefined THEN Respond(r, 401, "Unauthorized")
    ELSE LET doc == FindById(u, r.userId) IN
         IF ~doc.exists
         THEN Respond([r EXCEPT !.calls = 1], 500, "User not found")
         ELSE [r EXCEPT !.pc = "f_readTarget", !.user = doc, !.calls = 1]

\* entry of followUser up to the first store read inside addFollowing
FollowEnter(r, u) ==
    IF r.userId = Undefined THEN Respond(r, 401, "Unauthorized")
    ELSE IF r.userId = r.target
         THEN Respond(r, 400, "You cannot follow yourself")
    ELSE LET doc == FindById(u, r.userId) IN
         IF ~doc.exists
         THEN Respond([r EXCEPT !.calls = 1], 500, "User not found")
         ELSE [r EXCEPT !.pc = "f_readTarget", !.user = doc, !.calls = 1]

\* a followUser request from one of the given callers enters slot p
FollowUserBy(p, callers) ==
    /\ proc[p].pc = "idle"
    /\ nreq < MaxReq
    /\ \E uid \in callers, tid \in AllIds :
          Step(p, FollowEnter(Enter(p, "follow", uid, tid), users))
    /\ nreq' = nreq + 1
    /\ UNCHANGED <<users, httpVars>>

FollowUser(p) == FollowUserBy(p, Callers)

\* addFollowing without the test of userToFollow: the user is saved, then
\* the push onto the missing document fails
FollowCheck_NoTargetTest(r, u) ==
    LET doc == FindById(u, r.target) IN
    IF doc.exists /\ Includes(r.user.following, r.target)
    THEN Respond([r EXCEPT !.calls = @ + 1], 400, "Already following this user")
    ELSE [r EXCEPT !.pc = "f_saveUser", !.calls = @ + 1,
                   !.other = IF doc.exists THEN doc ELSE NewDoc("", "")]

\* addFollowing without the following.includes(followId) test
FollowCheck_NoIncludes(r, u) ==
    LET doc == FindById(u, r.target) IN
    IF ~doc.exists
    THEN Respond([r EXCEPT !.calls = @ + 1], 400, "User to follow not found")
    ELSE [r EXCEPT !.pc = "f_saveUser", !.other = doc, !.calls = @ + 1]

\* second read and the already-following check
FollowCheck(r, u) ==
    LET doc == FindById(u, r.target) IN
    IF ~doc.exists
    THEN Respond([r EXCEPT !.calls = @ + 1], 400, "User to follow not found")
    ELSE IF Includes(r.user.following, r.target)
         THEN Respond([r EXCEPT !.calls = @ + 1], 400, "Already following this user")
    ELSE [r EXCEPT !.pc = "f_saveUser", !.other = doc, !.calls = @ + 1]

FollowReadTarget(p) ==
    /\ proc[p].pc = "f_readTarget"
    /\ Step(p, FollowCheck(proc[p], users))
    /\ UNCHANGED <<users, nreq, httpVars>>

\* addFollowing that never touches the followed user's followers
FollowNeedsTargetSave_Never(r) == FALSE

\* after user.save(): is the target's followers list pushed and saved too?
FollowNeedsTargetSave(r) == ~Includes(r.other.followers, r.userId)

FollowSaveUser(p) ==
    /\ proc[p].pc = "f_saveUser"
    /\ LET r == [proc[p] EXCEPT !.calls = @ + 1] IN
       IF SavePushOk(users, r.userId)
       THEN /\ users' = SavePush(users, r.userId, "following", r.target)
            /\ IF FollowNeedsTargetSave(r)
               THEN Step(p, [r EXCEPT !.pc = "f_saveTarget"])
               ELSE Step(p, Respond(r, 200, "Now you are following this user"))
       ELSE /\ users' = users
            /\ Step(p, Respond(r, 500, "Error in followUser"))
    /\ UNCHANGED <<nreq, httpVars>>

FollowSaveTarget(p) ==
    /\ proc[p].pc = "f_saveTarget"
    /\ LET r == [proc[p] EXCEPT !.calls = @ + 1] IN
       IF SavePushOk(users, r.target)
       THEN /\ users' = SavePush(users, r.target, "followers", r.userId)
            /\ Step(p, Respond(r, 200, "Now you are following this user"))
       ELSE /\ users' = users
            /\ Step(p, Respond(r, 500, "Error in followUser"))
    /\ UNCHANGED <<nreq, httpVars>>

(***************************************************************************)
(* UserController.unfollowUser -> UserService.removeFollowing              *)
(***************************************************************************)
\* removeFollowing without the following.includes(unfollowId) test
UnfollowEnter_NoIncludes(r, u) ==
    IF r.userId = Undefined THEN Respond(r, 401, "Unauthorized")
    ELSE IF r.userId = r.target
         THEN Respond(r, 400, "You cannot unfollow yourself")
    ELSE LET doc == FindById(u, r.userId) IN
         IF ~doc.exists
         THEN Respond([r EXCEPT !.calls = 1], 500, "User not found")
         ELSE [r EXCEPT !.pc = "u_saveUser", !.calls = 1,
                        !.user = [doc EXCEPT !.following = Without(@, r.target)]]

\* entry of unfollowUser up to the store read and test inside removeFollowing
UnfollowEnter(r, u) ==
    IF r.userId = Undefined THEN Respond(r, 401, "Unauthorized")
    ELSE IF r.userId = r.target
         THEN Respond(r, 400, "You cannot unfollow yourself")
    ELSE LET doc == FindById(u, r.userId) IN
         IF ~doc.exists
         THEN Respond([r EXCEPT !.calls = 1], 500, "User not found")
         ELSE IF ~Includes(doc.following, r.target)
              THEN Respond([r EXCEPT !.calls = 1], 400, "You are not following this user")
         ELSE [r EXCEPT !.pc = "u_saveUser", !.calls = 1,
                        !.user = [doc EXCEPT !.following = Without(@, r.target)]]

UnfollowUser(p) ==
    /\ proc[p].pc = "idle"
    /\ nreq < MaxReq
    /\ \E uid \in Callers, tid \in AllIds :
          Step(p, UnfollowEnter(Enter(p, "unfollow", uid, tid), users))
    /\ nreq' = nreq + 1
    /\ UNCHANGED <<users, httpVars>>

UnfollowSaveUser(p) ==
    /\ proc[p].pc = "u_saveUser"
    /\ LET r == [proc[p] EXCEPT !.calls = @ + 1] IN
       IF SaveSetOk(users, r.userId, r.user)
       THEN /\ users' = SaveSet(users, r.userId, "following", r.user.following)
            /\ Step(p, [r EXCEPT !.pc = "u_readTarget"])
       ELSE /\ users' = users
            /\ Step(p, Respond(r, 500, "Error in unfollowUser"))
    /\ UNCHANGED <<nreq, httpVars>>

\* removeFollowing that leaves the unfollowed user's followers alone
UnfollowCheck_LeavesFollowers(r, u) ==
    Respond([r EXCEPT !.calls = @ + 1], 200, "You have unfollowed this user")

\* the read of the unfollowed user and the followers check
UnfollowCheck(r, u) ==
    LET doc == FindById(u, r.target) IN
    IF doc.exists /\ Includes(doc.followers, r.userId)
    THEN [r EXCEPT !.pc = "u_saveTarget", !.calls = @ + 1,
                   !.other = [doc EXCEPT !.followers = Without(@, r.userId)]]
    ELSE Respond([r EXCEPT !.calls = @ + 1], 200, "You have unfollowed this user")

UnfollowReadTarget(p) ==
    /\ proc[p].pc = "u_readTarget"
    /\ Step(p, UnfollowCheck(proc[p], users))
    /\ UNCHANGED <<users, nreq, httpVars>>

UnfollowSaveTarget(p) ==
    /\ proc[p].pc = "u_saveTarget"
    /\ LET r == [proc[p] EXCEPT !.calls = @ + 1] IN
       IF SaveSetOk(users, r.target, r.other)
       THEN /\ users' = SaveSet(users, r.target, "followers", r.other.followers)
            /\ Step(p, Respond(r, 200, "You have unfollowed this user"))
       ELSE /\ users' = users
            /\ Step(p, Respond(r, 500, "Error in unfollowUser"))
    /\ UNCHANGED <<nreq, httpVars>>

(***************************************************************************)
(* Token service: jwt.sign / jwt.verify                                    *)
(***************************************************************************)
ExpiresIn == 86400    \* expiresIn: "1d", in seconds

\* the instants at which the clock is read: the start of every day, and the
\* last second before the tokens of the first instant expire
Instants ==
    {k * ExpiresIn : k \in 0..MaxDays} \cup {ExpiresIn - 1}

\* jwt.sign(claims, secretKey, {expiresIn: "1d"}) at time t
Sign(claims, t) ==
    [kind |-> "jwt", signed |-> TRUE,
     payload |-> [id |-> claims.id, email |-> claims.email,
                  iat |-> t, exp |-> t + ExpiresIn]]

\* jwt.verify(token, secret_key) at time t: the token is well formed, its
\* signature matches and the clock has not reached exp
Verify(token, t) ==
    /\ token.kind = "jwt"
    /\ token.signed
    /\ t < token.payload.exp

\* property access on a decoded payload
Get(obj, key) == IF key \in DOMAIN obj THEN obj[key] ELSE Undefined

(***************************************************************************)
(* Authorization headers                                                   *)
(***************************************************************************)
Word(text) == [kind |-> "word", text |-> text]
NoWord == [kind |-> "undefined"]
NoHeader == [present |-> FALSE, parts |-> <<>>]

\* the header value, as split(" ") cuts it
Header(parts) == [present |-> TRUE, parts |-> parts]

\* a token whose payload was edited after signing (its exp pushed back)
Tamper(token) ==
    [token EXCEPT !.signed = FALSE, !.payload.exp = @ + ExpiresIn]

\* a token made up by the client
Forged ==
    [kind |-> "jwt", signed |-> FALSE,
     payload |-> [id |-> "u1", email |-> "u1", iat |-> 0,
                  exp |-> (MaxDays + 2) * ExpiresIn]]

\* what a client can send
Headers ==
    {NoHeader, Header(<<Word("Bearer")>>),
     Header(<<Word("Bearer"), Word(""), Word("garbage")>>),
     Header(<<Word("Bearer"), Word("garbage")>>),
     Header(<<Word("Bearer"), Forged>>)}
    \cup {Header(<<Word("Bearer"), t>>) : t \in issued}
    \cup {Header(<<Word("Bearer"), Tamper(t)>>) : t \in issued}
    \cup {Header(<<Word("Basic"), t>>) : t \in issued}
    \cup {Header(<<t>>) : t \in issued}

\* req.headers.authorization?.split(" ")[1]
ExtractToken(h) ==
    IF h.present /\ Len(h.parts) >= 2 THEN h.parts[2] ELSE NoWord

\* !token
Falsy(w) == w.kind = "undefined" \/ (w.kind = "word" /\ w.text = "")

(***************************************************************************)
(* Request bodies                                                          *)
(***************************************************************************)
\* a value that is no string (a number, an object)
NotAString == "<number>"

\* String.prototype.trim on the strings requests carry
Trim(x) == IF x = " " THEN "" ELSE x

\* a ?? b
Coalesce(x, y) == IF x = Undefined THEN y ELSE x

\* the bodies PUT /users/:id is sent: a key is Undefined when absent
NoBody ==
    [email |-> Undefined, username |-> Undefined,
     profile |-> Undefined, profile_image |-> Undefined,
     cover |-> Undefined, cover_image |-> Undefined]

(***************************************************************************)
(* Authentication gate: Authentication.authenticateToken                   *)
(***************************************************************************)
NoRequest ==
    [pc |-> "idle", header |-> NoHeader, at |-> 0, identity |-> Undefined,
     status |-> 0, sent |-> 0, next |-> 0, route |-> "",
     result |-> "", a |-> Undefined, b |-> Undefined,
     body |-> NoBody, calls |-> <<>>]

\* the gate with the return after res.status(403) left out
AuthenticateToken_FallsThrough(r, t) ==
    LET token == ExtractToken(r.header) IN
    IF Falsy(token)
    THEN [r EXCEPT !.pc = "closed", !.status = 401, !.sent = @ + 1]
    ELSE IF ~Verify(token, t)
         THEN [r EXCEPT !.pc = "route", !.status = 403, !.sent = @ + 1,
                        !.next = @ + 1]
    ELSE [r EXCEPT !.pc = "route", !.next = @ + 1,
                   !.identity = Get(token.payload, "userId")]

\* the gate decoding the token without checking its signature
AuthenticateToken_DecodeOnly(r, t) ==
    LET token == ExtractToken(r.header) IN
    IF Falsy(token)
    THEN [r EXCEPT !.pc = "closed", !.status = 401, !.sent = @ + 1]
    ELSE IF token.kind # "jwt" \/ t >= token.payload.exp
         THEN [r EXCEPT !.pc = "closed", !.status = 403, !.sent = @ + 1]
    ELSE [r EXCEPT !.pc = "route", !.next = @ + 1,
                   !.identity = Get(token.payload, "userId")]

\* the gate looking the token's user up and refusing when it is gone
AuthenticateToken_ChecksStore(r, t) ==
    LET token == ExtractToken(r.header) IN
    IF Falsy(token)
    THEN [r EXCEPT !.pc = "closed", !.status = 401, !.sent = @ + 1]
    ELSE IF ~Verify(token, t) \/ ~users[token.payload.id].exists
         THEN [r EXCEPT !.pc = "closed", !.status = 403, !.sent = @ + 1]
    ELSE [r EXCEPT !.pc = "route", !.next = @ + 1,
                   !.identity = Get(token.payload, "userId")]

\* request r reaches the gate at time t
AuthenticateToken(r, t) ==
    LET token == ExtractToken(r.header) IN
    IF Falsy(token)
    THEN [r EXCEPT !.pc = "closed", !.status = 401, !.sent = @ + 1]
    ELSE IF ~Verify(token, t)
         THEN [r EXCEPT !.pc = "closed", !.status = 403, !.sent = @ + 1]
    ELSE [r EXCEPT !.pc = "route", !.next = @ + 1,
                   !.identity = Get(token.payload, "userId")]

\* a request for a /users route arrives: router.use(authenticateToken)
Request(c) ==
    /\ req[c].pc \in {"idle", "closed"}
    /\ nreq < MaxHttp
    /\ \E h \in Headers :
          req' = [req EXCEPT ![c] =
                     AuthenticateToken([NoRequest EXCEPT !.header = h, !.at = now], now)]
    /\ nreq' = nreq + 1
    /\ UNCHANGED <<users, now, issued, cloudCalls, images, coreVars>>

(***************************************************************************)
(* Store operations of the routed UserService                              *)
(***************************************************************************)
\* findByIdAndUpdate(id, {$push: {field: x}})
AddToSet_Push(u, id, field, x) ==
    IF u[id].exists
    THEN [u EXCEPT ![id] = [@ EXCEPT ![field] = Append(@, x), !.updatedAt = now]]
    ELSE u

\* findByIdAndUpdate(id, {$addToSet: {field: x}})
AddToSet(u, id, field, x) ==
    IF u[id].exists
    THEN [u EXCEPT ![id] = [@ EXCEPT
             ![field] = IF Includes(@, x) THEN @ ELSE Append(@, x),
             !.updatedAt = now]]
    ELSE u

\* findByIdAndUpdate(id, {$pull: {field: x}})
Pull(u, id, field, x) ==
    IF u[id].exists
    THEN [u EXCEPT ![id] = [@ EXCEPT ![field] = Without(@, x),
                                     !.updatedAt = now]]
    ELSE u

\* the unique index on email
EmailTaken(u, email, except) ==
    \E i \in AllIds \ {except} : u[i].exists /\ u[i].email = email

\* a store without the unique index on username
UsernameTaken_NoIndex(u, username, except) == FALSE

\* the unique index on username; it is not sparse, so a document without a
\* username is indexed under null (Undefined here) like any other value
UsernameTaken(u, username, except) ==
    \E i \in AllIds \ {except} : u[i].exists /\ u[i].username = username

\* ids a new document can get
FreshIds(u) == {i \in AllIds : u[i] = NoDoc}

\* bcrypt.hash / bcrypt.compare
Hash(password) == "$2b$" \o password
Compare(password, stored) == stored = Hash(password)

(***************************************************************************)
(* Routed handlers: modules/user/controller/user.controller.ts             *)
(***************************************************************************)
ReqIds == {"u1", "u4"}       \* ids named in the path of a request
BodyIds == {"u1", "u2"}      \* ids named in the body of a request

\* the handler of connection c has answered
\* (handleRequest sends the success message with the returned data, or the
\* error message when the callback throws)
Close(c, route, result) ==
    req' = [req EXCEPT ![c] = [@ EXCEPT !.pc = "closed", !.route = route,
                                        !.a = Undefined, !.b = Undefined,
                                        !.result = result, !.sent = @ + 1]]

\* GET /users, GET /users/:id, GET /users/username/:username
GetUsers(c) ==
    /\ req[c].pc = "route"
    /\ \E route \in {"getAllUsers", "getUserById", "getUserByUsername"},
          id \in ReqIds :
          Close(c, route,
                IF route = "getAllUsers" \/ FindById(users, id).exists
                THEN "success" ELSE "error")
    /\ UNCHANGED <<users, nreq, now, issued, cloudCalls, images, coreVars>>

\* POST /users: User.create(req.body); the body's password is stored as sent
CreateUserWith(c, emails, usernames) ==
    /\ req[c].pc = "route"
    /\ \E email \in emails, username \in usernames :
          IF \/ EmailTaken(users, email, Undefined)
             \/ UsernameTaken(users, username, Undefined)
             \/ FreshIds(users) = {}
          THEN /\ Close(c, "createUser", "error")
               /\ users' = users
          ELSE \E id \in FreshIds(users) :
               /\ Close(c, "createUser", "success")
               /\ users' = [users EXCEPT ![id] =
                              [NewDoc(email, "pw2") EXCEPT !.username = username,
                                                           !.updatedAt = now]]
    /\ UNCHANGED <<nreq, now, issued, cloudCalls, images, coreVars>>

CreateUser(c) == CreateUserWith(c, {"u2", "e5"}, {Undefined})

\* the bodies of well-formed requests
PlainBodies ==
    {[NoBody EXCEPT !.email = "e9"],
     [NoBody EXCEPT !.profile = "data"],
     [NoBody EXCEPT !.email = "e9", !.profile = "data", !.cover = "data"]}

\* and those with empty, blank, non-string or alternative image keys
UpdateBodies ==
    PlainBodies \cup
    {NoBody,
     [NoBody EXCEPT !.cover_image = "data"],
     [NoBody EXCEPT !.email = "e9", !.profile = " ", !.cover = NotAString],
     [NoBody EXCEPT !.profile = "", !.profile_image = "data"],
     [NoBody EXCEPT !.profile = "big"],
     [NoBody EXCEPT !.cover = "max"]}

\* profile ?? profile_image, cover ?? cover_image
Incoming(body, slot) ==
    IF slot = "profile" THEN Coalesce(body.profile, body.profile_image)
    ELSE Coalesce(body.cover, body.cover_image)

\* the test without typeof and trim
HasImage_Truthy(x) == x \notin {Undefined, ""}

\* incoming && typeof incoming === "string" && incoming.trim().length > 0
HasImage(x) == x \notin {Undefined, NotAString} /\ Trim(x) # ""

\* what the image host does with the calls of one slot
Fates == [destroy : BOOLEAN, upload : BOOLEAN]

\* the image host failing uploads only
UploadFates == {f \in Fates : f.destroy}

\* those of the given fates that matter to a slot: none without an image,
\* and no fate of destroy without an old URL
FatesOf(fates, old, x) ==
    {f \in fates : /\ (~HasImage(x) => f.upload)
                   /\ ((~HasImage(x) \/ old = 0) => f.destroy)}

\* the number of bytes an image payload decodes to
MaxSize == 10485760     \* maxSize: 10 * 1024 * 1024
Size(x) ==
    CASE x = "big" -> MaxSize + 1
      [] x = "max" -> MaxSize
      [] OTHER -> 4

\* the file object updateUser hands to uploadImage: it has no size
FileOf(x) == [buffer |-> Size(x), mimetype |-> "image/jpeg"]

AllowedTypes == {"image/jpeg", "image/jpg", "image/png", "image/webp"}

\* validateFile throws: file.size > maxSize is false when size is undefined
Rejected(file) ==
    \/ file.mimetype \notin AllowedTypes
    \/ ("size" \in DOMAIN file /\ file.size > MaxSize)

\* updateUser uploading first and deleting the old image once that is done
SlotCalls_UploadFirst(old, fate, file) ==
    IF Rejected(file) THEN <<"invalid">>
    ELSE IF ~fate.upload THEN <<"upload!">>
    ELSE <<"upload">>
         \o (IF old # 0 THEN <<IF fate.destroy THEN "destroy" ELSE "destroy!">>
             ELSE <<>>)

\* the image-host calls of one slot that carries an image: deleteImage of
\* the old URL when there is one (a failure is swallowed), then uploadImage,
\* which sends the file unless validateFile throws ("invalid", no call); a
\* failed call is marked with !
SlotCalls(old, fate, file) ==
    (IF old # 0 THEN <<IF fate.destroy THEN "destroy" ELSE "destroy!">> ELSE <<>>)
    \o <<IF Rejected(file) THEN "invalid"
         ELSE IF fate.upload THEN "upload" ELSE "upload!">>

\* the calls that reached the image host
HostCalls(calls) == SelectSeq(calls, LAMBDA x : x # "invalid")

\* uploadImage threw
Failed(calls) == Includes(calls, "upload!") \/ Includes(calls, "invalid")

\* updateUser going on to the store after an upload has failed
Aborted_Never(calls) == FALSE

\* updateUser giving up when deleteImage has failed, too
Aborted_OnAnyFailure(calls) == Failed(calls) \/ Includes(calls, "destroy!")

\* the callback of updateUser ends at a throwing uploadImage
Aborted(calls) == Failed(calls)

\* the run of updateUser on document doc: the image-host calls made, the
\* updates object handed to UserService.updateUser, and whether that is
\* reached; an uploaded image gets a URL never handed out before
UpdateRun(doc, body, f1, f2) ==
    LET p == Incoming(body, "profile")
        c == Incoming(body, "cover")
        calls1 == IF HasImage(p)
                  THEN SlotCalls(doc.profile_image, f1, FileOf(p)) ELSE <<>>
        calls2 == IF Aborted(calls1) \/ ~HasImage(c) THEN <<>>
                  ELSE SlotCalls(doc.cover_image, f2, FileOf(c))
        url1 == cloudCalls + Len(HostCalls(calls1))
        url2 == cloudCalls + Len(HostCalls(calls1 \o calls2))
    IN  [calls |-> calls1 \o calls2,
         thrown |-> Aborted(calls1 \o calls2),
         email |-> body.email,
         username |-> body.username,
         profile_image |-> IF HasImage(p) THEN url1 ELSE 0,
         cover_image |-> IF HasImage(c) THEN url2 ELSE 0,
         destroyed |-> (IF Includes(calls1, "destroy") THEN {doc.profile_image}
                        ELSE {})
                       \cup (IF Includes(calls2, "destroy") THEN {doc.cover_image}
                             ELSE {}),
         uploaded |-> (IF Includes(calls1, "upload") THEN {url1} ELSE {})
                      \cup (IF Includes(calls2, "upload") THEN {url2} ELSE {})]

\* the host after the calls of a run
Host(held, run) == (held \ run.destroyed) \cup run.uploaded

\* findByIdAndUpdate(id, updates, {new: true}) without the $set of updatedAt
Merge_NoTimestamp(doc, run) ==
    [doc EXCEPT
        !.email = IF run.email # Undefined THEN run.email ELSE @,
        !.username = IF run.username # Undefined THEN run.username ELSE @,
        !.profile_image = IF run.profile_image # 0 THEN run.profile_image ELSE @,
        !.cover_image = IF run.cover_image # 0 THEN run.cover_image ELSE @]

\* findByIdAndUpdate(id, updates, {new: true}): the keys of updates are
\* set, and the schema's timestamps option sets updatedAt
Merge(doc, run) ==
    [doc EXCEPT
        !.email = IF run.email # Undefined THEN run.email ELSE @,
        !.username = IF run.username # Undefined THEN run.username ELSE @,
        !.profile_image = IF run.profile_image # 0 THEN run.profile_image ELSE @,
        !.cover_image = IF run.cover_image # 0 THEN run.cover_image ELSE @,
        !.updatedAt = now]

\* the handler of connection c has answered an update of id
CloseUpdate(c, id, body, calls, result) ==
    req' = [req EXCEPT ![c] = [@ EXCEPT !.pc = "closed", !.route = "updateUser",
                                        !.a = id, !.b = Undefined,
                                        !.body = body, !.calls = calls,
                                        !.result = result, !.sent = @ + 1]]

\* PUT /users/:id with one of the given bodies, the image host behaving in
\* one of the given ways
UpdateUserWith(c, bodies, fates) ==
    /\ req[c].pc = "route"
    /\ \E id \in ReqIds, body \in bodies :
          LET doc == FindById(users, id) IN
          IF ~doc.exists
          THEN /\ CloseUpdate(c, id, body, <<>>, "error")
               /\ UNCHANGED <<users, cloudCalls, images>>
          ELSE \E f1 \in FatesOf(fates, doc.profile_image, Incoming(body, "profile")),
                  f2 \in FatesOf(fates, doc.cover_image, Incoming(body, "cover")) :
               LET run == UpdateRun(doc, body, f1, f2) IN
               /\ cloudCalls' = cloudCalls + Len(HostCalls(run.calls))
               /\ images' = Host(images, run)
               /\ IF run.thrown
                     \/ (run.email # Undefined /\ EmailTaken(users, run.email, id))
                     \/ (run.username # Undefined
                           /\ UsernameTaken(users, run.username, id))
                  THEN /\ CloseUpdate(c, id, body, run.calls, "error")
                       /\ users' = users
                  ELSE /\ CloseUpdate(c, id, body, run.calls, "success")
                       /\ users' = [users EXCEPT ![id] = Merge(doc, run)]
    /\ UNCHANGED <<nreq, now, issued, coreVars>>

UpdateUser(c) == UpdateUserWith(c, PlainBodies, UploadFates)

\* a delete that also pulls the id out of every other user's lists
DeleteUser_Cascade(c) ==
    /\ req[c].pc = "route"
    /\ \E id \in ReqIds :
          IF FindById(users, id).exists
          THEN /\ Close(c, "deleteUser", "success")
               /\ users' = [i \in AllIds |->
                     IF i = id THEN Gone
                     ELSE IF users[i].exists
                          THEN [users[i] EXCEPT !.following = Without(@, id),
                                                !.followers = Without(@, id),
                                                !.connections = Without(@, id)]
                          ELSE users[i]]
          ELSE /\ Close(c, "deleteUser", "error")
               /\ users' = users
    /\ UNCHANGED <<nreq, now, issued, cloudCalls, images, coreVars>>

\* DELETE /users/:id: findByIdAndDelete(id)
DeleteUser(c) ==
    /\ req[c].pc = "route"
    /\ \E id \in ReqIds :
          IF FindById(users, id).exists
          THEN /\ Close(c, "deleteUser", "success")
               /\ users' = [users EXCEPT ![id] = Gone]
          ELSE /\ Close(c, "deleteUser", "error")
               /\ users' = users
    /\ UNCHANGED <<nreq, now, issued, cloudCalls, images, coreVars>>

\* POST /users/follow, /users/unfollow, /users/connect: the first update,
\* with userId and targetId read from the body
RelationFirst(c) ==
    /\ req[c].pc = "route"
    /\ \E route \in {"followUser", "unfollowUser", "connectUsers"},
          userId \in BodyIds, targetId \in BodyIds :
          /\ req' = [req EXCEPT ![c] = [@ EXCEPT !.pc = "second", !.route = route,
                                                 !.a = userId, !.b = targetId]]
          /\ users' = CASE route = "followUser" ->
                             AddToSet(users, userId, "following", targetId)
                        [] route = "unfollowUser" ->
                             Pull(users, userId, "following", targetId)
                        [] route = "connectUsers" ->
                             AddToSet(users, userId, "connections", targetId)
    /\ UNCHANGED <<nreq, now, issued, cloudCalls, images, coreVars>>

\* the same handlers answering without their second update
RelationSecond_NoWrite(c) ==
    /\ req[c].pc = "second"
    /\ Close(c, req[c].route, "success")
    /\ UNCHANGED <<users, nreq, now, issued, cloudCalls, images, coreVars>>

\* the second update of the same handlers, and their answer
RelationSecond(c) ==
    /\ req[c].pc = "second"
    /\ LET r == req[c] IN
       /\ users' = CASE r.route = "followUser" ->
                          AddToSet(users, r.b, "followers", r.a)
                     [] r.route = "unfollowUser" ->
                          Pull(users, r.b, "followers", r.a)
                     [] r.route = "connectUsers" ->
                          AddToSet(users, r.b, "connections", r.a)
       /\ Close(c, r.route, "success")
    /\ UNCHANGED <<nreq, now, issued, cloudCalls, images, coreVars>>

(***************************************************************************)
(* Open routes: AuthController.login / signup                              *)
(***************************************************************************)
\* POST /auth/login
Login ==
    /\ nreq < MaxHttp
    /\ \E email \in {"u1"}, password \in {"pw1", "wrong"} :
          LET found == {i \in AllIds : users[i].exists /\ users[i].email = email} IN
          IF found # {} /\ \E i \in found : Compare(password, users[i].password)
          THEN \E i \in found :
                  issued' = issued \cup {Sign([id |-> i, email |-> users[i].email], now)}
          ELSE issued' = issued
    /\ nreq' = nreq + 1
    /\ UNCHANGED <<users, req, now, cloudCalls, images, coreVars>>

\* POST /auth/signup: User.findOne({email}), then User.create of the body
\* with the hashed password
SignupWith(emails, usernames) ==
    /\ nreq < MaxHttp
    /\ \E email \in emails, username \in usernames, password \in {"pw1"} :
          IF \/ EmailTaken(users, email, Undefined)
             \/ UsernameTaken(users, username, Undefined)
             \/ FreshIds(users) = {}
          THEN UNCHANGED <<users, issued>>
          ELSE \E id \in FreshIds(users) :
               /\ users' = [users EXCEPT ![id] =
                      [NewDoc(email, Hash(password)) EXCEPT !.username = username,
                                                            !.updatedAt = now]]
               /\ issued' = issued \cup {Sign([id |-> id, email |-> email], now)}
    /\ nreq' = nreq + 1
    /\ UNCHANGED <<req, now, cloudCalls, images, coreVars>>

Signup == SignupWith({"u1", "e4"}, {Undefined})

\* time passes
Tick ==
    /\ \E t \in Instants : t > now /\ now' = t
    /\ UNCHANGED <<users, req, nreq, issued, cloudCalls, images, coreVars>>

(***************************************************************************)
(* Core controller: getUserId, updateUserId, searchUsers                   *)
(***************************************************************************)
\* the keys of a stored document as JSON
Keys ==
    {"_id", "email", "password", "username", "full_name", "bio", "location",
     "profile_image", "cover_image", "followers", "following", "connections",
     "createdAt", "updatedAt", "__v"}

\* const { password, ...safeUser } = user.toObject(); select('-password')
SafeUser(id) == [id |-> id, keys |-> Keys \ {"password"}]

\* res.status(code).json(data) ends the request
Send(r, code, msg, data) == [Respond(r, code, msg) EXCEPT !.data = data]

\* GET of the caller's own record
GetUserId(p) ==
    /\ proc[p].pc = "idle"
    /\ nreq < MaxReq
    /\ \E uid \in {"u1", "u4", Undefined} :
          LET r == Enter(p, "getUserId", uid, Undefined) IN
          Step(p, IF uid = Undefined THEN Respond(r, 401, "Unauthorized")
                  ELSE IF ~FindById(users, uid).exists
                       THEN Respond([r EXCEPT !.calls = 1], 404, "User not found")
                  ELSE Send([r EXCEPT !.calls = 1], 200, "", {SafeUser(uid)}))
    /\ nreq' = nreq + 1
    /\ UNCHANGED <<users, httpVars>>

\* !username
NoUsername(x) == x \in {Undefined, ""}

\* entry of updateUserId up to findUserById and the first tests
UpdateEnter(r, u) ==
    IF r.userId = Undefined THEN Respond(r, 401, "Unauthorized")
    ELSE LET tempUser == FindById(u, r.userId) IN
         IF ~tempUser.exists
         THEN Respond([r EXCEPT !.calls = 1], 404, "User not found")
         ELSE IF NoUsername(r.body.username)
              THEN Send([r EXCEPT !.calls = 1], 200, "", {SafeUser(r.userId)})
         ELSE [r EXCEPT !.calls = 1, !.user = tempUser,
                        !.finalUsername = tempUser.username,
                        !.pc = IF tempUser.username # r.body.username
                               THEN "u_check" ELSE "u_write"]

\* an updateUserId request of one of the given callers enters slot p
UpdateUserIdBy(p, callers, bodies) ==
    /\ proc[p].pc = "idle"
    /\ nreq < MaxReq
    /\ \E uid \in callers, body \in bodies :
          Step(p, UpdateEnter([Enter(p, "updateUserId", uid, Undefined)
                                  EXCEPT !.body = body], users))
    /\ nreq' = nreq + 1
    /\ UNCHANGED <<users, httpVars>>

\* updateUserId taking the requested username without looking it up
CheckUsername_NoLookup(r, u) ==
    [r EXCEPT !.pc = "u_write", !.calls = @ + 1,
              !.finalUsername = r.body.username]

\* findUserByUsername(username): the requested name is taken only if free
CheckUsername(r, u) ==
    [r EXCEPT !.pc = "u_write", !.calls = @ + 1,
              !.finalUsername =
                  IF \E i \in AllIds : u[i].exists /\ u[i].username = r.body.username
                  THEN @ ELSE r.body.username]

UpdateCheckUsername(p) ==
    /\ proc[p].pc = "u_check"
    /\ Step(p, CheckUsername(proc[p], users))
    /\ UNCHANGED <<users, nreq, httpVars>>

\* updatedData as findByIdAndUpdate applies it: undefined keys are dropped,
\* profile and cover are no paths of the schema and are dropped as well
Apply(doc, updatedData) ==
    [doc EXCEPT
        !.username = IF updatedData.username # Undefined
                     THEN updatedData.username ELSE @,
        !.bio = IF updatedData.bio # Undefined THEN updatedData.bio ELSE @,
        !.updatedAt = now]

\* handleImageUploads, UserService.updateUser and the answer.  With a file
\* in req.files.profile: currentUser.profile is no path of the schema, so
\* nothing is deleted; uploadImage is called and may throw.
UpdateWrite(p) ==
    /\ proc[p].pc = "u_write"
    /\ LET r == proc[p]
           updatedData == [username |-> r.finalUsername, bio |-> r.body.bio]
       IN \E uploaded \in (IF r.body.profile THEN BOOLEAN ELSE {TRUE}) :
          /\ cloudCalls' = cloudCalls + (IF r.body.profile THEN 1 ELSE 0)
          /\ images' = images \cup (IF r.body.profile /\ uploaded
                                    THEN {cloudCalls + 1} ELSE {})
          /\ IF \/ ~uploaded
                \/ ~users[r.userId].exists
                \/ (updatedData.username # Undefined
                      /\ UsernameTaken(users, updatedData.username, r.userId))
             THEN /\ Step(p, Respond(r, 500, "Error in updateUserId"))
                  /\ users' = users
             ELSE /\ Step(p, Send([r EXCEPT !.calls = @ + 1], 200, "",
                                  {SafeUser(r.userId)}))
                  /\ users' = [users EXCEPT ![r.userId] = Apply(@, updatedData)]
    /\ UNCHANGED <<nreq, req, now, issued>>

\* the characters of the strings the searched fields hold
Text(x) ==
    CASE x = "ann" -> <<"a", "n", "n">>
      [] x = "bob" -> <<"b", "o", "b">>
      [] x = "dan" -> <<"d", "a", "n">>
      [] x = "eve" -> <<"e", "v", "e">>
      [] x = "b(a)" -> <<"b", "(", "a", ")">>
      [] x = "u1" -> <<"u", "1">>
      [] x = "u2" -> <<"u", "2">>
      [] x = "u3" -> <<"u", "3">>
      [] OTHER -> <<>>

\* case folding of the 'i' flag
Lower(ch) ==
    CASE ch = "A" -> "a"
      [] ch = "N" -> "n"
      [] OTHER -> ch

RECURSIVE TrimLeft(_)
TrimLeft(s) == IF s # <<>> /\ Head(s) = " " THEN TrimLeft(Tail(s)) ELSE s

Reverse(s) == [i \in 1..Len(s) |-> s[Len(s) + 1 - i]]

\* String.prototype.trim on a sequence of characters
TrimText(s) == Reverse(TrimLeft(Reverse(TrimLeft(s))))

\* new RegExp(source, 'i') for sources made of literal characters, the
\* wildcard . and groups: it throws SyntaxError on an unbalanced parenthesis
RECURSIVE Nesting(_, _)
Nesting(source, depth) ==
    IF source = <<>> THEN depth = 0
    ELSE IF Head(source) = "(" THEN Nesting(Tail(source), depth + 1)
    ELSE IF Head(source) = ")" THEN depth > 0 /\ Nesting(Tail(source), depth - 1)
    ELSE Nesting(Tail(source), depth)

Compiles(source) == Nesting(source, 0)

\* RegExp.prototype.test of a compiled source on a string: the characters
\* of the source, its parentheses aside, match somewhere in the string
Test(source, text) ==
    LET a == SelectSeq(source, LAMBDA ch : ch \notin {"(", ")"}) IN
    \E i \in 0..(Len(text) - Len(a)) :
        \A k \in 1..Len(a) : a[k] = "." \/ Lower(a[k]) = Lower(text[i + k])

\* a field matches {field: regex} only if the document has it
FieldMatches(source, value) == value # Undefined /\ Test(source, Text(value))

\* UserService.searchUsers: User.find({$or: [...]}).select('-password'),
\* then the caller filtered out
SearchUsersIn(u, source, excludeUserId) ==
    {SafeUser(i) : i \in {j \in AllIds \ {excludeUserId} :
        /\ u[j].exists
        /\ \/ FieldMatches(source, u[j].username)
           \/ FieldMatches(source, u[j].email)
           \/ FieldMatches(source, u[j].full_name)
           \/ FieldMatches(source, u[j].location)}}

Str(text) == [kind |-> "string", text |-> text]

\* the values of req.body.input
Inputs ==
    {[kind |-> "undefined", text |-> <<>>], [kind |-> "number", text |-> <<>>],
     Str(<<>>), Str(<<" ">>), Str(<<"a", "n">>), Str(<<" ", "A", "N", " ">>),
     Str(<<".">>), Str(<<"(">>), Str(<<"(", "a", ")">>)}

\* !input || input.trim().length === 0 (a number is truthy and has no trim:
\* the handler throws TypeError there)
BlankInput(input) ==
    input.kind = "undefined" \/ (input.kind = "string" /\ TrimText(input.text) = <<>>)

\* POST search
SearchUsers(p) ==
    /\ proc[p].pc = "idle"
    /\ nreq < MaxReq
    /\ \E uid \in {"u1", Undefined}, input \in Inputs :
          LET r == [Enter(p, "searchUsers", uid, Undefined)
                       EXCEPT !.body = [NoInput EXCEPT !.input = input]]
          IN Step(p,
               IF uid = Undefined THEN Respond(r, 401, "Unauthorized")
               ELSE IF input.kind = "number"
                    THEN Respond(r, 500, "Error in searchUsers")
               ELSE IF BlankInput(input) THEN Send(r, 200, "", {})
               ELSE IF ~Compiles(TrimText(input.text))
                    THEN Respond(r, 500, "Error in searchUsers")
               ELSE Send([r EXCEPT !.calls = 1], 200, "",
                         SearchUsersIn(users, TrimText(input.text), uid)))
    /\ nreq' = nreq + 1
    /\ UNCHANGED <<users, httpVars>>

(***************************************************************************)
(* Response payloads of the routed handlers                                *)
(***************************************************************************)
\* the keys of the user objects in the value a routed handler returns to
\* handleRequest: the documents as the store gave them, or a message
Returned(route, result) ==
    IF result # "success" THEN {}
    ELSE IF route \in {"getAllUsers", "getUserById", "getUserByUsername",
                       "createUser", "updateUser", "deleteUser"}
         THEN Keys
    ELSE {"message"}

(***************************************************************************)
(* The core controller served concurrently                                 *)
(***************************************************************************)
\* the usernames and locations of the documents present at start
Username == [u1 |-> "ann", u2 |-> "bob", u3 |-> "dan"]
Location == [u1 |-> "", u2 |-> "b(a)", u3 |-> ""]

InitUsers ==
    [i \in AllIds |->
        IF i \in ExistingIds
        THEN [NewDoc(i, Hash("pw1")) EXCEPT !.username = Username[i],
                                            !.full_name = Username[i],
                                            !.location = Location[i]]
        ELSE NoDoc]

CoreInit ==
    /\ users = InitUsers
    /\ proc = [p \in Procs |-> Idle]
    /\ nreq = 0
    /\ hist = <<>>
    /\ overlapped = FALSE
    /\ req = [c \in Slots |-> NoRequest]
    /\ now = 0
    /\ issued = {}
    /\ cloudCalls = 0
    /\ images = {}

CoreNext ==
    \E p \in Procs :
        \/ FollowUser(p)
        \/ FollowReadTarget(p)
        \/ FollowSaveUser(p)
        \/ FollowSaveTarget(p)
        \/ UnfollowUser(p)
        \/ UnfollowSaveUser(p)
        \/ UnfollowReadTarget(p)
        \/ UnfollowSaveTarget(p)

CoreSpec == CoreInit /\ [][CoreNext]_vars

(***************************************************************************)
(* followUser served to callers whose own record may be missing            *)
(***************************************************************************)
StaleCallers == {"u1", "u4"}    \* u4: an identity with no document

FollowByStale(p) == FollowUserBy(p, StaleCallers)

FollowNext ==
    \E p \in Procs :
        \/ FollowByStale(p)
        \/ FollowReadTarget(p)
        \/ FollowSaveUser(p)
        \/ FollowSaveTarget(p)

FollowSpec == CoreInit /\ [][FollowNext]_vars

(***************************************************************************)
(* The core directory routes served concurrently                           *)
(***************************************************************************)
\* the bodies updateUserId is sent: a username held by another user, a free
\* one (the caller's own once taken), an empty one; with and without a file
Renames ==
    {[NoInput EXCEPT !.username = "bob", !.bio = "new"],
     [NoInput EXCEPT !.username = "eve", !.bio = "new"],
     [NoInput EXCEPT !.username = "eve", !.profile = TRUE],
     [NoInput EXCEPT !.username = "", !.bio = "new"]}

UpdateUserId(p) == UpdateUserIdBy(p, {"u1", "u3", "u4", Undefined}, Renames)

DirectoryNext ==
    \E p \in Procs :
        \/ GetUserId(p)
        \/ UpdateUserId(p)
        \/ UpdateCheckUsername(p)
        \/ UpdateWrite(p)

DirectorySpec == CoreInit /\ [][DirectoryNext]_vars

(***************************************************************************)
(* Search among users who rename themselves                                *)
(***************************************************************************)
RenameOnce(p) ==
    UpdateUserIdBy(p, {"u3"}, {[NoInput EXCEPT !.username = "eve"]})

SearchNext ==
    \E p \in Procs :
        \/ SearchUsers(p)
        \/ RenameOnce(p)
        \/ UpdateCheckUsername(p)
        \/ UpdateWrite(p)

SearchSpec == CoreInit /\ [][SearchNext]_vars

(***************************************************************************)
(* The HTTP surface: the gate, the routed handlers, login and signup       *)
(***************************************************************************)
Init ==
    /\ users = InitUsers
    /\ proc = [p \in Procs |-> Idle]
    /\ nreq = 0
    /\ hist = <<>>
    /\ overlapped = FALSE
    /\ req = [c \in Slots |-> NoRequest]
    /\ now = 0
    /\ issued = {}
    /\ cloudCalls = 0
    /\ images = {}

Next ==
    \/ Login
    \/ Signup
    \/ Tick
    \/ \E c \in Slots :
          \/ Request(c)
          \/ GetUsers(c)
          \/ CreateUser(c)
          \/ UpdateUser(c)
          \/ DeleteUser(c)
          \/ RelationFirst(c)
          \/ RelationSecond(c)

Spec == Init /\ [][Next]_vars

(***************************************************************************)
(* The profile update workflow: PUT /users/:id with every kind of body,    *)
(* the image host failing deletions and uploads                            *)
(***************************************************************************)
UpdateAny(c) == UpdateUserWith(c, UpdateBodies, Fates)

UpdateNext ==
    \/ Login
    \/ Tick
    \/ \E c \in Slots :
          \/ Request(c)
          \/ UpdateAny(c)

UpdateSpec == Init /\ [][UpdateNext]_vars

(***************************************************************************)
(* The routed UserService relationship calls, two at a time, their two     *)
(* updates interleaved                                                     *)
(***************************************************************************)
ServiceOps == {"followUser", "unfollowUser", "connectUsers"}

\* the first findByIdAndUpdate of a call
FirstUpdate(u, op, userId, targetId) ==
    CASE op = "followUser" -> AddToSet(u, userId, "following", targetId)
      [] op = "unfollowUser" -> Pull(u, userId, "following", targetId)
      [] op = "connectUsers" -> AddToSet(u, userId, "connections", targetId)

\* the second one
SecondUpdate(u, op, userId, targetId) ==
    CASE op = "followUser" -> AddToSet(u, targetId, "followers", userId)
      [] op = "unfollowUser" -> Pull(u, targetId, "followers", userId)
      [] op = "connectUsers" -> AddToSet(u, targetId, "connections", userId)

ServiceCall(p) ==
    /\ proc[p].pc = "idle"
    /\ nreq < MaxCalls
    /\ \E op \in ServiceOps, userId \in {"u1"}, targetId \in BodyIds :
          /\ Step(p, [Enter(p, op, userId, targetId) EXCEPT !.pc = "s_second",
                                                            !.calls = 1])
          /\ users' = FirstUpdate(users, op, userId, targetId)
    /\ nreq' = nreq + 1
    /\ UNCHANGED httpVars

ServiceReturn(p) ==
    /\ proc[p].pc = "s_second"
    /\ LET r == proc[p] IN
       /\ users' = SecondUpdate(users, r.op, r.userId, r.target)
       /\ Step(p, Respond([r EXCEPT !.calls = 2], 200, ""))
    /\ UNCHANGED <<nreq, httpVars>>

RelationNext ==
    \/ Tick
    \/ \E p \in Procs : ServiceCall(p) \/ ServiceReturn(p)

RelationSpec == Init /\ [][RelationNext]_vars

(***************************************************************************)
(* The routed updateUser (PUT /users/:id) served two at a time: each await *)
(* of the handler is a step of its own                                     *)
(***************************************************************************)
RaceBodies ==
    {[NoBody EXCEPT !.email = "e9", !.profile = "data"],
     [NoBody EXCEPT !.email = "e8", !.cover = "data"],
     [NoBody EXCEPT !.username = "eve"]}

\* the request enters slot p: UserService.getUserById(id)
UpdateRead(p) ==
    /\ proc[p].pc = "idle"
    /\ nreq < MaxCalls
    /\ \E id \in ReqIds, body \in RaceBodies :
          LET existingUser == FindById(users, id)
              r == [Enter(p, "updateUser", id, Undefined)
                       EXCEPT !.calls = 1, !.body = body]
          IN  Step(p, IF ~existingUser.exists
                      THEN Respond(r, 0, "Failed to update user")
                      ELSE [r EXCEPT !.pc = "w_images", !.user = existingUser])
    /\ nreq' = nreq + 1
    /\ UNCHANGED <<users, httpVars>>

\* the image-host calls of the handler, made for the document it has read
UpdateImages(p) ==
    /\ proc[p].pc = "w_images"
    /\ LET r == proc[p] IN
       \E f1 \in FatesOf(Fates, r.user.profile_image, Incoming(r.body, "profile")),
          f2 \in FatesOf(Fates, r.user.cover_image, Incoming(r.body, "cover")) :
          LET run == UpdateRun(r.user, r.body, f1, f2) IN
          /\ cloudCalls' = cloudCalls + Len(HostCalls(run.calls))
          /\ images' = Host(images, run)
          /\ Step(p, IF run.thrown
                      THEN Respond(r, 0, "Failed to update user")
                      ELSE [r EXCEPT !.pc = "w_write", !.data = run])
    /\ UNCHANGED <<users, nreq, req, now, issued>>

\* the updates of run are refused by the store for the document id
Unwritable(u, id, run) ==
    \/ ~u[id].exists
    \/ (run.email # Undefined /\ EmailTaken(u, run.email, id))
    \/ (run.username # Undefined /\ UsernameTaken(u, run.username, id))

\* a handler that sets its updates on the document it read and saves that
UpdateCommit_SaveRead(p) ==
    /\ proc[p].pc = "w_write"
    /\ LET r == proc[p] IN
       IF Unwritable(users, r.userId, r.data)
       THEN /\ Step(p, Respond(r, 0, "Failed to update user"))
            /\ users' = users
       ELSE /\ Step(p, Respond([r EXCEPT !.calls = 2], 0,
                               "User updated successfully"))
            /\ users' = [users EXCEPT ![r.userId] = Merge(r.user, r.data)]
    /\ UNCHANGED <<nreq, httpVars>>

\* UserService.updateUser(id, updates) and the answer
UpdateCommit(p) ==
    /\ proc[p].pc = "w_write"
    /\ LET r == proc[p] IN
       IF Unwritable(users, r.userId, r.data)
       THEN /\ Step(p, Respond(r, 0, "Failed to update user"))
            /\ users' = users
       ELSE /\ Step(p, Respond([r EXCEPT !.calls = 2], 0,
                               "User updated successfully"))
            /\ users' = [users EXCEPT ![r.userId] = Merge(@, r.data)]
    /\ UNCHANGED <<nreq, httpVars>>

RaceNext ==
    \E p \in Procs : UpdateRead(p) \/ UpdateImages(p) \/ UpdateCommit(p)

RaceSpec == Init /\ [][RaceNext]_vars

(***************************************************************************)
(* Every writer of email and username, interleaved: signup, createUser,    *)
(* updateUser (PUT /users/:id) and the core updateUserId                   *)
(***************************************************************************)
SignupNamed == SignupWith({"u1", "e4"}, {"bob", "eve"})

CreateNamed(c) == CreateUserWith(c, {"u2", "e5"}, {"ann", "eve"})

UpdateNamed(c) ==
    UpdateUserWith(c, {[NoBody EXCEPT !.username = "eve"],
                       [NoBody EXCEPT !.email = "u2"],
                       [NoBody EXCEPT !.email = "e5", !.username = "bob"]},
                   {f \in Fates : f.destroy /\ f.upload})

RenameToEve(p) ==
    UpdateUserIdBy(p, {"u1", "u3"}, {[NoInput EXCEPT !.username = "eve"]})

UniqueNext ==
    \/ Login
    \/ SignupNamed
    \/ \E c \in Slots :
          \/ Request(c)
          \/ CreateNamed(c)
          \/ UpdateNamed(c)
    \/ \E p \in Procs :
          \/ RenameToEve(p)
          \/ UpdateCheckUsername(p)
          \/ UpdateWrite(p)

UniqueSpec == Init /\ [][UniqueNext]_vars

(***************************************************************************)
(* Properties of the core follow / unfollow controller                     *)
(***************************************************************************)
Last == hist[Len(hist)]

\* the last two calls of the history are op1(a, b), answered 200, then op2(a, b)
Pair(op2, a, b) ==
    /\ Len(hist) = 2
    /\ FollowedOk(hist[1])
    /\ hist[1].userId = a /\ hist[1].target = b
    /\ hist[2].op = op2
    /\ hist[2].userId = a /\ hist[2].target = b

\* B is in A.following exactly when A is in B.followers
Mirror(u) ==
    \A a \in AllIds, b \in AllIds :
        (u[a].exists /\ u[b].exists) =>
            (Includes(u[a].following, b) <=> Includes(u[b].followers, a))

\* C1: when follow(A,B) has succeeded and follow(A,B) is called again, both
\* running alone, the second call is answered 400 'Already following this
\* user', A.following then holds B exactly once and, in a run whose calls
\* never overlapped, B.followers holds A exactly once.
C1_SecondFollowRejected ==
    \A a \in ExistingIds, b \in ExistingIds :
        (Quiet /\ a # b /\ Pair("follow", a, b)) =>
            /\ hist[2].status = 400
            /\ hist[2].message = "Already following this user"
            /\ Count(users[a].following, b) = 1
            /\ (~overlapped => Count(users[b].followers, a) = 1)

C1_Witness ==
    /\ Quiet /\ ~overlapped
    /\ Pair("follow", "u1", "u2")
    /\ hist[2].status = 400

\* C2: a follow whose followId is the caller's own identity is answered 400
\* 'You cannot follow yourself' without a single store call, and the store is
\* as it was when the call began.
C2_SelfFollowRejected ==
    (Len(hist) > 0 /\ Last.op = "follow" /\ Last.userId # Undefined
        /\ Last.userId = Last.target) =>
            /\ Last.status = 400
            /\ Last.message = "You cannot follow yourself"
            /\ Last.calls = 0
            /\ (Quiet => users = Last.pre)

C2_Witness ==
    /\ Quiet /\ Len(hist) > 0
    /\ Last.op = "follow" /\ Last.userId = "u1" /\ Last.target = "u1"
    /\ Includes(users["u2"].following, "u1")

\* C4 as claimed: for all users A, B with B not in A.following, unfollow(A,B)
\* fails with 'You are not following this user' and changes no record.
C4_Claimed ==
    \A a \in ExistingIds, b \in AllIds :
        (Quiet /\ Len(hist) > 0 /\ Last.op = "unfollow"
            /\ Last.userId = a /\ Last.target = b
            /\ ~Includes(Last.pre[a].following, b)) =>
                /\ Last.status = 400
                /\ Last.message = "You are not following this user"
                /\ users = Last.pre

\* C4 amended: the same for A # B; unfollow(A,A) fails with 'You cannot
\* unfollow yourself' instead, and changes no record either.
C4_NotFollowingRejected ==
    \A a \in ExistingIds, b \in AllIds :
        (Quiet /\ Len(hist) > 0 /\ Last.op = "unfollow"
            /\ Last.userId = a /\ Last.target = b
            /\ ~Includes(Last.pre[a].following, b)) =>
                /\ Last.status = 400
                /\ Last.message = IF a = b THEN "You cannot unfollow yourself"
                                  ELSE "You are not following this user"
                /\ users = Last.pre

C4_Witness ==
    /\ Quiet /\ Len(hist) > 0
    /\ Last.op = "unfollow" /\ Last.userId = "u1" /\ Last.target = "u2"
    /\ Last.message = "You are not following this user"
    /\ Includes(users["u1"].following, "u3")

\* C5 as claimed: follow(A,B) then unfollow(A,B), nothing in between, from a
\* state where B is not in A.following, restores every relation list.
C5_Claimed ==
    \A a \in ExistingIds, b \in ExistingIds :
        (Quiet /\ a # b /\ Pair("unfollow", a, b)) =>
            Rel(users) = Rel(hist[1].pre)

\* C5 amended: the round trip restores every relation list when, before the
\* follow, A is not in B.followers either.
C5_RoundTrip ==
    \A a \in ExistingIds, b \in ExistingIds :
        (Quiet /\ a # b /\ Pair("unfollow", a, b)
            /\ ~Includes(hist[1].pre[b].followers, a)) =>
                /\ hist[2].status = 200
                /\ Rel(users) = Rel(hist[1].pre)

C5_Witness ==
    /\ Quiet /\ Pair("unfollow", "u1", "u2")
    /\ ~Includes(hist[1].pre["u2"].followers, "u1")
    /\ Len(hist[1].pre["u1"].following) > 0

\* C6 as claimed: whenever no call is in progress the two lists mirror each
\* other, whatever the interleaving of the calls before.
C6_Claimed == Quiet => Mirror(users)

\* C6 amended: they do when the calls ran one after the other.
C6_MirrorSequential == (Quiet /\ ~overlapped) => Mirror(users)

C6_Witness ==
    /\ Quiet /\ ~overlapped
    /\ Includes(users["u1"].following, "u2")
    /\ Includes(users["u2"].following, "u3")
    /\ Len(hist) > 0 /\ Last.op = "unfollow" /\ Last.status = 200

(***************************************************************************)
(* Properties of the HTTP surface (Spec)                                   *)
(***************************************************************************)
\* the requests that have reached the gate
Arrived == {req[c] : c \in {d \in Slots : req[d].pc # "idle"}}

\* the token the gate read from request r
Presented(r) == ExtractToken(r.header)

\* request r carries a token that login or signup issued
Genuine(r) == ~Falsy(Presented(r)) /\ Presented(r) \in issued

\* C3: after any sequence of POST /users/follow, /users/unfollow and
\* /users/connect requests, no user's identifier is in that user's own
\* followers, following or connections list.
C3_NoSelfRelation ==
    \A i \in AllIds :
        users[i].exists =>
            /\ ~Includes(users[i].following, i)
            /\ ~Includes(users[i].followers, i)
            /\ ~Includes(users[i].connections, i)

\* C7: a request from whose Authorization header no token can be extracted
\* is answered 401, and one whose token fails verification (malformed,
\* tampered or expired) is answered 403; in both cases the next stage is
\* never invoked, exactly one response is sent and no identity is attached.
C7_GateFailurePaths ==
    \A r \in Arrived :
        /\ Falsy(Presented(r)) =>
              /\ r.status = 401 /\ r.sent = 1 /\ r.next = 0
              /\ r.identity = Undefined /\ r.route = ""
        /\ (~Falsy(Presented(r)) /\ ~Verify(Presented(r), r.at)) =>
              /\ r.status = 403 /\ r.sent = 1 /\ r.next = 0
              /\ r.identity = Undefined /\ r.route = ""

\* an issued token presented after its expiry has been answered 403
C7_Witness ==
    \E r \in Arrived :
        /\ Genuine(r)
        /\ r.at >= Presented(r).payload.exp
        /\ r.status = 403 /\ r.sent = 1 /\ r.next = 0

\* C8: for a token issued by login or signup for user U and presented
\* before its expiry, the gate invokes the next stage exactly once, sends no
\* response itself, and attaches U's identifier as the identity.
C8_IdentityIsUser ==
    \A r \in Arrived :
        (Genuine(r) /\ r.at < Presented(r).payload.exp) =>
            /\ r.next = 1
            /\ r.status = 0
            /\ r.identity = Presented(r).payload.id

\* C9: a /users route handler runs only for a request that passed the gate,
\* and a request whose token is missing, expired or tampered changes nothing
\* in the user store and calls the image host not at all.
C9_HandlersBehindGate ==
    /\ [](\A r \in Arrived :
            (r.pc \in {"route", "second"} \/ r.route # "") =>
                /\ r.next = 1 /\ r.status = 0
                /\ ~Falsy(Presented(r)) /\ Verify(Presented(r), r.at))
    /\ [][ /\ \A c \in Slots :
                (req'[c] # req[c] /\ req'[c].status \in {401, 403}) =>
                    (users' = users /\ cloudCalls' = cloudCalls)
           /\ (users' # users \/ cloudCalls' # cloudCalls) =>
                \/ issued' # issued
                \/ \E c \in Slots :
                      /\ req[c].pc \in {"route", "second"}
                      /\ Verify(Presented(req[c]), req[c].at)
                      /\ req'[c] # req[c] ]_vars

\* after a handler has written to the store and called the image host, a
\* request with a tampered token has been turned away
C9_Witness ==
    /\ cloudCalls > 0
    /\ users # InitUsers
    /\ \E r \in Arrived, t \in issued :
          /\ Presented(r) = Tamper(t)
          /\ r.at < Presented(r).payload.exp
          /\ r.status = 403 /\ r.route = ""

\* C10: a token issued for user U passes the gate at every time before its
\* expiry, one day after issue, whatever has happened to U's record in the
\* meantime, and is refused at every time from its expiry on.
C10_NoRevocation ==
    \A r \in Arrived :
        Genuine(r) =>
            LET expiry == Presented(r).payload.iat + ExpiresIn IN
            /\ r.at < expiry => (r.next = 1 /\ r.status = 0)
            /\ r.at >= expiry => (r.next = 0 /\ r.status = 403)

\* the token of a deleted user has passed the gate
C10_Witness ==
    \E r \in Arrived :
        /\ Genuine(r)
        /\ users[Presented(r).payload.id] = Gone
        /\ r.at < Presented(r).payload.exp
        /\ r.next = 1

(***************************************************************************)
(* Properties of followUser with a missing party (FollowSpec)              *)
(***************************************************************************)
\* C17: a follow by a caller A with no record is answered 500 'User not
\* found', a follow of a B with no record is answered 400 'User to follow not
\* found', and in both cases no record is written: the store is as it was
\* when the call began, and no following or followers list ever holds the
\* identifier of a missing party.
C17_MissingPartyRejected ==
    /\ \A i \in ExistingIds, j \in AllIds \ ExistingIds :
          /\ ~Includes(users[i].following, j)
          /\ ~Includes(users[i].followers, j)
    /\ (Len(hist) > 0 /\ Last.op = "follow" /\ Last.userId # Undefined
            /\ Last.userId # Last.target) =>
          /\ ~Last.pre[Last.userId].exists =>
                /\ Last.status = 500 /\ Last.message = "User not found"
                /\ (Quiet => users = Last.pre)
          /\ (Last.pre[Last.userId].exists /\ ~Last.pre[Last.target].exists) =>
                /\ Last.status = 400
                /\ Last.message = "User to follow not found"
                /\ (Quiet => users = Last.pre)

\* after u1 has followed u2, u1's follow of the missing u4 has been refused
C17_Witness ==
    /\ Quiet /\ Len(hist) > 0
    /\ Last.op = "follow" /\ Last.userId = "u1" /\ Last.target = "u4"
    /\ Last.message = "User to follow not found"
    /\ Includes(users["u1"].following, "u2")

(***************************************************************************)
(* Properties of the routed relationship handlers (Spec)                   *)
(***************************************************************************)
\* no routed relationship handler is between its two updates
Settled == \A c \in Slots : req[c].pc # "second"

\* no record has been created since the start
NoneCreated == \A i \in AllIds \ ExistingIds : users[i] = NoDoc

\* B is in A.connections exactly when A is in B.connections
Symmetric(u) ==
    \A a \in AllIds, b \in AllIds :
        (u[a].exists /\ u[b].exists) =>
            (Includes(u[a].connections, b) <=> Includes(u[b].connections, a))

\* connection c takes a step of connectUsers
ConnectStep(c) ==
    \/ req[c].pc = "route" /\ req'[c].pc = "second"
          /\ req'[c].route = "connectUsers"
    \/ req[c].pc = "second" /\ req[c].route = "connectUsers"
          /\ req'[c] # req[c]

\* C16: when every connectUsers call has completed, for all existing users A
\* and B, B is in A.connections exactly when A is in B.connections, and no
\* step of connectUsers changes a followers or following list.
C16_ConnectSymmetric ==
    /\ []((Settled /\ NoneCreated) => Symmetric(users))
    /\ [][\A c \in Slots : ConnectStep(c) =>
            \A i \in AllIds :
                users[i].exists =>
                    /\ users'[i].exists
                    /\ users'[i].following = users[i].following
                    /\ users'[i].followers = users[i].followers]_vars

\* u1 and u2 have been connected by a completed connectUsers call
C16_Witness ==
    /\ Settled /\ NoneCreated
    /\ \E c \in Slots : req[c].route = "connectUsers" /\ req[c].pc = "closed"
    /\ Includes(users["u1"].connections, "u2")
    /\ Includes(users["u2"].connections, "u1")

(***************************************************************************)
(* Properties of the profile update workflow (UpdateSpec, Spec)            *)
(***************************************************************************)
\* connection c takes the step of updateUser
UpdateStep(c) ==
    req[c].pc = "route" /\ req'[c].pc = "closed" /\ req'[c].route = "updateUser"

\* an image key that is absent, no string, empty or whitespace only
Blank(x) == x \in {Undefined, NotAString, "", " "}

\* a body without an image payload
NoImages(body) ==
    /\ Blank(body.profile) /\ Blank(body.profile_image)
    /\ Blank(body.cover) /\ Blank(body.cover_image)

\* C14: an update whose body carries no profile or cover image payload (the
\* keys absent, no string, empty or whitespace only) makes no call to the
\* image host and leaves every stored profile and cover image URL as it was.
C14_NoImagesNoCalls ==
    [][\A c \in Slots :
        (UpdateStep(c) /\ NoImages(req'[c].body)) =>
            /\ cloudCalls' = cloudCalls
            /\ req'[c].calls = <<>>
            /\ \A i \in AllIds :
                  users[i].exists =>
                      /\ users'[i].exists
                      /\ users'[i].profile_image = users[i].profile_image
                      /\ users'[i].cover_image = users[i].cover_image]_vars

\* a user with a stored profile image has been updated by a body whose image
\* keys are blank
C14_Witness ==
    \E c \in Slots :
        /\ req[c].pc = "closed" /\ req[c].route = "updateUser"
        /\ req[c].result = "success"
        /\ req[c].body.profile = " " /\ req[c].body.cover = NotAString
        /\ users[req[c].a].profile_image # 0
        /\ users[req[c].a].email = "e9"

\* C18: when the upload of the profile image or of the cover image fails,
\* updateUser writes nothing to the store (no other field, no image URL, not
\* even the URL of a profile upload that succeeded before the cover upload
\* failed) and the request ends with an error.
C18_UploadFailureFatal ==
    [][\A c \in Slots :
        (UpdateStep(c) /\ Includes(req'[c].calls, "upload!")) =>
            /\ users' = users
            /\ req'[c].result = "error"]_vars

\* the cover upload has failed after the profile upload succeeded
C18_Witness ==
    \E c \in Slots :
        /\ req[c].pc = "closed" /\ req[c].route = "updateUser"
        /\ req[c].body.email = "e9"
        /\ req[c].calls = <<"upload", "upload!">>
        /\ req[c].result = "error"
        /\ users[req[c].a].email # "e9"

\* the update of id with this body is refused by the store's unique index
Refused(id, body) ==
    \/ body.email # Undefined /\ EmailTaken(users, body.email, id)
    \/ body.username # Undefined /\ UsernameTaken(users, body.username, id)

\* C19: a failed deletion of the old image never ends the request: the
\* upload of the new image follows it, and when every upload succeeds the
\* update is applied and the request answered with success.
C19_DeleteFailureSwallowed ==
    [][\A c \in Slots :
        (UpdateStep(c) /\ Includes(req'[c].calls, "destroy!")) =>
            LET r == req'[c] IN
            /\ \A k \in 1..Len(r.calls) :
                  r.calls[k] = "destroy!" =>
                      /\ k < Len(r.calls)
                      /\ r.calls[k + 1] \in {"upload", "upload!"}
            /\ (~Includes(r.calls, "upload!") /\ ~Refused(r.a, r.body)) =>
                  /\ r.result = "success"
                  /\ users'[r.a].profile_image # users[r.a].profile_image
                        \/ users'[r.a].cover_image # users[r.a].cover_image]_vars

\* the old image could not be deleted, the new one is stored
C19_Witness ==
    \E c \in Slots :
        /\ req[c].pc = "closed" /\ req[c].route = "updateUser"
        /\ req[c].calls = <<"destroy!", "upload">>
        /\ req[c].result = "success"
        /\ users[req[c].a].profile_image = cloudCalls

\* the document a partial-field merge of body into doc gives, the fields the
\* request does not name left alone
Merged(doc, docAfter, body) ==
    [doc EXCEPT
        !.email = IF body.email # Undefined THEN body.email ELSE @,
        !.username = IF body.username # Undefined THEN body.username ELSE @,
        !.profile_image = IF Blank(Incoming(body, "profile")) THEN @
                          ELSE docAfter.profile_image,
        !.cover_image = IF Blank(Incoming(body, "cover")) THEN @
                        ELSE docAfter.cover_image]

\* C20 as claimed: a successful update sets the fields present in the
\* request and leaves every other field of the record, and every other
\* record, unchanged.
C20_Claimed ==
    [][\A c \in Slots :
        (UpdateStep(c) /\ req'[c].result = "success") =>
            LET id == req'[c].a IN
            users' = [users EXCEPT
                         ![id] = Merged(users[id], users'[id], req'[c].body)]]_vars

\* C20 amended: it does so except for updatedAt, which becomes the time of
\* the update.
C20_PartialMerge ==
    [][\A c \in Slots :
        (UpdateStep(c) /\ req'[c].result = "success") =>
            LET id == req'[c].a IN
            users' = [users EXCEPT
                         ![id] = [Merged(users[id], users'[id], req'[c].body)
                                     EXCEPT !.updatedAt = now]]]_vars

\* a user who follows another one has been given a new email, later than
\* the last write to the record
C20_Witness ==
    \E c \in Slots :
        /\ req[c].pc = "closed" /\ req[c].route = "updateUser"
        /\ req[c].result = "success"
        /\ req[c].body = [NoBody EXCEPT !.email = "e9"]
        /\ users[req[c].a].email = "e9"
        /\ users[req[c].a].updatedAt > 0
        /\ Len(users[req[c].a].following) > 0

(***************************************************************************)
(* Properties of the core directory routes (DirectorySpec, SearchSpec)     *)
(***************************************************************************)
\* slot p answers a call of op that ran alone from its first step on
AnswersAlone(p, op) ==
    /\ proc[p].op = op /\ proc[p].solo
    /\ proc'[p].pc = "idle"
    /\ hist' # <<>>

\* another user than id holds the username
HeldByOther(u, id, username) ==
    \E i \in AllIds \ {id} : u[i].exists /\ u[i].username = username

\* C12: when user U asks updateUserId for a username that differs from U's
\* own and another user holds it, the request is answered with success, U's
\* username stays what it was and the other supplied fields are stored; when
\* the username is free, U's username becomes the requested one.  (A request
\* that also carries an image file fails as a whole when its upload fails.)
C12_UsernameFallback ==
    [][\A p \in Procs :
        (AnswersAlone(p, "updateUserId") /\ proc[p].pc = "u_write") =>
            LET r == proc[p]
                e == hist'[Len(hist')]
                U == r.userId
                uploadFailed == r.body.profile /\ cloudCalls' > cloudCalls
                                    /\ e.status = 500 /\ users' = users
            IN  (r.body.username # users[U].username /\ ~uploadFailed) =>
                    /\ e.status = 200
                    /\ SafeUser(U) \in e.data
                    /\ r.body.bio # Undefined => users'[U].bio = r.body.bio
                    /\ users'[U].username =
                          IF HeldByOther(users, U, r.body.username)
                          THEN users[U].username ELSE r.body.username]_vars

\* ann has asked for bob's username: she is still ann, with her new bio
C12_Witness ==
    /\ hist # <<>>
    /\ LET e == Last IN
       /\ e.op = "updateUserId" /\ e.userId = "u1"
       /\ e.body.username = "bob" /\ e.body.bio = "new"
       /\ e.status = 200
       /\ users["u1"].username = "ann" /\ users["u1"].bio = "new"
       /\ users["u2"].username = "bob"

\* the string holds the characters of sub in a row, letter case aside
Contains(text, sub) ==
    \E i \in 0..(Len(text) - Len(sub)) :
        \A k \in 1..Len(sub) : Lower(sub[k]) = Lower(text[i + k])

\* a user whose username, email, full name or location holds the input
Holds(doc, sub) ==
    \E value \in {doc.username, doc.email, doc.full_name, doc.location} :
        value # Undefined /\ Contains(Text(value), sub)

\* C11 as claimed: a search by an authenticated caller with a missing, empty
\* or blank input is answered with success, an empty list and no store
\* query; with any other string it is answered with a list that lacks the
\* caller and has every other user whose username, email, full name or
\* location holds the trimmed input, letter case aside.
C11_Search ==
    (hist # <<>> /\ Last.op = "searchUsers" /\ Last.userId # Undefined) =>
        LET e == Last
            input == e.body.input
            found == {x.id : x \in e.data}
        IN  /\ BlankInput(input) =>
                  e.status = 200 /\ e.data = {} /\ e.calls = 0
            /\ (input.kind = "string" /\ ~BlankInput(input)) =>
                  /\ e.status = 200
                  /\ e.userId \notin found
                  /\ \A j \in AllIds \ {e.userId} :
                        (e.pre[j].exists /\ Holds(e.pre[j], TrimText(input.text)))
                            => j \in found

(***************************************************************************)
(* Properties of the store (UniqueSpec)                                    *)
(***************************************************************************)
\* C13: in every reachable state no two user records have the same email
\* and no two have the same username when it is present, whatever the
\* interleaving of signup, createUser, updateUser and updateUserId; two
\* concurrent updateUserId calls that both found the same username free do
\* not both end up holding it.
C13_Unique ==
    \A i, j \in AllIds :
        (i # j /\ users[i].exists /\ users[j].exists) =>
            /\ users[i].email # users[j].email
            /\ users[i].username = Undefined
                  \/ users[i].username # users[j].username

\* two updateUserId calls have both found eve free; the first holds it now
\* and the second is about to write it
C13_Witness ==
    \E p, q \in Procs :
        /\ p # q
        /\ proc[p].pc = "idle"
        /\ users["u1"].username = "eve"
        /\ proc[q].pc = "u_write" /\ proc[q].userId = "u3"
        /\ proc[q].finalUsername = "eve"
        /\ proc[q].user.username = "dan"
        /\ overlapped

(***************************************************************************)
(* Properties of the response payloads (Spec)                              *)
(***************************************************************************)
\* C15 as claimed: no response payload of any operation has a user's
\* password field.
C15_NoPassword ==
    /\ \A c \in Slots :
          req[c].pc = "closed" =>
              "password" \notin Returned(req[c].route, req[c].result)
    /\ \A k \in 1..Len(hist) : \A x \in hist[k].data : "password" \notin x.keys

(***************************************************************************)
(* Properties of concurrent core follows (FollowSpec)                      *)
(***************************************************************************)
\* C21: A.following comes to hold B more than once only through the race of
\* the claim: the user.save() that adds the second B belongs to a follow(A,B)
\* that ran beside another call, had loaded A while A.following was still
\* without B, so had passed the 'already following' test, and goes on to its
\* success answer.
C21_DuplicateEdgeRace ==
    [][\A a \in ExistingIds, b \in AllIds :
        (Count(users[a].following, b) = 1 /\ Count(users'[a].following, b) = 2) =>
            \E p \in Procs :
                /\ proc[p].pc = "f_saveUser"
                /\ proc[p].userId = a /\ proc[p].target = b
                /\ ~Includes(proc[p].user.following, b)
                /\ ~proc[p].solo
                /\ proc'[p].pc = "f_saveTarget"
                      \/ (proc'[p].pc = "idle" /\ ~FollowNeedsTargetSave(proc[p]))]_vars

\* two follow(u1, u2) calls, the only calls served, have both written and
\* both been answered: u1.following holds u2 twice
C21_Witness ==
    /\ Quiet /\ nreq = 2 /\ overlapped
    /\ users["u1"].following = <<"u2", "u2">>
    /\ Includes(users["u2"].followers, "u1")

(***************************************************************************)
(* Properties of the routed UserService relationship calls (RelationSpec)  *)
(***************************************************************************)
\* no list holds an identifier twice
NoDuplicates(u) ==
    \A i \in AllIds : \A f \in {"following", "followers", "connections"} :
        u[i].exists => \A x \in AllIds : Count(u[i][f], x) <= 1

\* the last call ran alone and repeated a followUser or connectUsers whose
\* two updates had been applied before
Repeated ==
    /\ Quiet /\ hist # <<>>
    /\ LET e == Last IN
       \/ /\ e.op = "followUser"
          /\ Includes(e.pre[e.userId].following, e.target)
          /\ Includes(e.pre[e.target].followers, e.userId)
       \/ /\ e.op = "connectUsers"
          /\ Includes(e.pre[e.userId].connections, e.target)
          /\ Includes(e.pre[e.target].connections, e.userId)

\* C22 as claimed: no followers, following or connections list ever holds an
\* identifier twice, and a repeated followUser(A,B) or connectUsers(A,B)
\* leaves the state equal to the state after the first call.
C22_Claimed ==
    /\ NoDuplicates(users)
    /\ Repeated => users = Last.pre

\* the records without their updatedAt
Untimed(u) ==
    [i \in AllIds |-> IF u[i].exists THEN [u[i] EXCEPT !.updatedAt = 0] ELSE u[i]]

\* C22 amended: the repeated call leaves every field of every record as it
\* was except updatedAt, which the two updates refresh in the records of A
\* and B.
C22_SetSemantics ==
    /\ NoDuplicates(users)
    /\ Repeated =>
          /\ Untimed(users) = Untimed(Last.pre)
          /\ \A i \in AllIds \ {Last.userId, Last.target} : users[i] = Last.pre[i]

\* followUser(u1, u2) has been repeated a day after the first call
C22_Witness ==
    /\ Repeated
    /\ Last.op = "followUser" /\ Last.userId = "u1" /\ Last.target = "u2"
    /\ users["u1"].following = <<"u2">> /\ users["u2"].followers = <<"u1">>
    /\ users["u1"].updatedAt > Last.pre["u1"].updatedAt
    /\ overlapped

(***************************************************************************)
(* Properties of the image host in the update workflow (UpdateSpec)        *)
(***************************************************************************)
\* the body has an image payload that decodes to more than MaxSize bytes
Oversized(body) ==
    \E slot \in {"profile", "cover"} :
        ~Blank(Incoming(body, slot)) /\ Size(Incoming(body, slot)) > MaxSize

\* C28 as claimed: an update with an image payload of more than 10485760
\* bytes fails before anything is sent to the image host for it, and no
\* image is uploaded; a payload of at most that size is not refused for its
\* size.
C28_SizeLimit ==
    [][\A c \in Slots :
        UpdateStep(c) =>
            /\ Oversized(req'[c].body) =>
                  /\ req'[c].result = "error"
                  /\ ~Includes(req'[c].calls, "upload")
                  /\ images' \subseteq images
            /\ ~Oversized(req'[c].body) => ~Includes(req'[c].calls, "invalid")]_vars

Deletions == {"destroy", "destroy!"}
Uploads == {"upload", "upload!", "invalid"}

\* C23: for each slot for which updateUser is given a new image while the
\* record holds an image URL, the deletion of the old image is requested
\* and has ended before the upload of the new one is started; a deleted
\* image is gone from the host whatever becomes of the upload, and a failed
\* upload leaves the record as it was.
C23_DeleteBeforeUpload ==
    [][\A c \in Slots :
        UpdateStep(c) =>
            LET r == req'[c]
                doc == users[r.a]
                p == Incoming(r.body, "profile")
                cv == Incoming(r.body, "cover")
                n == Len(r.calls)
            IN  doc.exists =>
                /\ (~Blank(p) /\ doc.profile_image # 0) =>
                      /\ n >= 2
                      /\ r.calls[1] \in Deletions /\ r.calls[2] \in Uploads
                      /\ r.calls[1] = "destroy" => doc.profile_image \notin images'
                /\ (~Blank(cv) /\ doc.cover_image # 0
                        /\ (Blank(p) \/ Includes(r.calls, "upload"))) =>
                      /\ n >= 2
                      /\ r.calls[n - 1] \in Deletions /\ r.calls[n] \in Uploads
                      /\ r.calls[n - 1] = "destroy" => doc.cover_image \notin images'
                /\ Includes(r.calls, "upload!") => users' = users]_vars

\* the upload has failed, the old image is gone from the host, and the
\* record still has its URL
C23_Witness ==
    \E c \in Slots :
        /\ req[c].pc = "closed" /\ req[c].route = "updateUser"
        /\ req[c].calls = <<"destroy", "upload!">>
        /\ req[c].result = "error"
        /\ users[req[c].a].profile_image # 0
        /\ users[req[c].a].profile_image \notin images

(***************************************************************************)
(* Properties of the images of updateUserId (DirectorySpec)                *)
(***************************************************************************)
\* C24 as claimed: after an updateUserId with a profile image file has been
\* answered with success, the profile image URL stored for the user is the
\* URL the image host returned for the upload.
C24_UrlPersisted ==
    [][\A p \in Procs :
        (AnswersAlone(p, "updateUserId") /\ proc[p].pc = "u_write"
            /\ proc[p].body.profile /\ hist'[Len(hist')].status = 200) =>
                /\ cloudCalls' \in images'
                /\ users'[proc[p].userId].profile_image = cloudCalls']_vars

(***************************************************************************)
(* Properties of the routed delete, passwords and actors (Spec)            *)
(***************************************************************************)
\* the step in which connection c's request is answered by route
Answers(c, route) ==
    req[c].pc = "route" /\ req'[c].pc = "closed" /\ req'[c].route = route

\* the lists of document d name id
Names(d, id) ==
    d.exists /\ (Includes(d.following, id) \/ Includes(d.followers, id)
                    \/ Includes(d.connections, id))

\* C26: a deleteUser request removes at most the record it names and leaves
\* every other record, with its followers, following and connections lists,
\* as it was; an answer of success removes exactly one record.
C26_DeleteOnlyRecord ==
    [][\A c \in Slots : Answers(c, "deleteUser") =>
          \/ users' = users /\ req'[c].result = "error"
          \/ /\ req'[c].result = "success"
             /\ \E id \in ReqIds :
                   users[id].exists /\ users' = [users EXCEPT ![id] = Gone]]_vars

\* a user has been deleted and another user's lists still name it
C26_Witness ==
    /\ \E c \in Slots : req[c].pc = "closed" /\ req[c].route = "deleteUser"
                            /\ req[c].result = "success"
    /\ users["u1"] = Gone
    /\ \E i \in AllIds : Names(users[i], "u1")

\* the passwords clients supply
Passwords == {"pw1", "pw2", "wrong"}

\* C27 as claimed: the password stored in every user record is the hash of a
\* client-supplied password, never the plaintext.
C27_PasswordsHashed ==
    \A i \in AllIds : users[i].exists =>
        /\ users[i].password \notin Passwords
        /\ \E pw \in Passwords : users[i].password = Hash(pw)

\* the user the token of request r was signed for
Caller(r) == ExtractToken(r.header).payload.id

\* C29 as claimed: the first update of a follow or unfollow request changes
\* the following list of no user other than the authenticated caller.
C29_ActorIdentity ==
    [][\A c \in Slots :
        (req[c].pc = "route" /\ req'[c].pc = "second"
            /\ req'[c].route \in {"followUser", "unfollowUser"}) =>
                \A i \in AllIds :
                    (users[i].exists /\ users'[i].following # users[i].following)
                        => i = Caller(req[c])]_vars

(***************************************************************************)
(* Properties of the image host's contents (UpdateSpec)                    *)
(***************************************************************************)
\* the image URLs the user records hold
Referenced ==
    {users[i].profile_image : i \in {j \in AllIds : users[j].exists}}
        \cup {users[i].cover_image : i \in {j \in AllIds : users[j].exists}}

\* C30 as claimed: once every update request has been answered, every image
\* on the host is referenced by the profile or cover image URL of some user
\* record, and every image URL a record holds is an image on the host.
C30_NoOrphans ==
    (\A c \in Slots : req[c].pc \in {"idle", "closed"}) =>
        /\ images \subseteq Referenced
        /\ Referenced \ {0} \subseteq images

(***************************************************************************)
(* Properties of concurrent updates of one user (RaceSpec)                 *)
(***************************************************************************)
StoredFields == {"email", "username", "profile_image", "cover_image"}

\* the updates of run write field f
Writes(run, f) ==
    IF f \in {"email", "username"} THEN run[f] # Undefined ELSE run[f] # 0

\* C25: the store write of an update sets every field the update writes to
\* the update's value, whatever another update has written since this one
\* read the document, and leaves every other field and every other record
\* as the store holds it: the last write of a field wins, a field written by
\* one update only keeps that update's value, and no other value appears.
C25_LastWriteWins ==
    [][\A p \in Procs :
        (proc[p].pc = "w_write" /\ proc'[p].pc = "idle") =>
            LET id == proc[p].userId
                run == proc[p].data
            IN  IF Unwritable(users, id, run)
                THEN users' = users
                ELSE /\ \A f \in StoredFields :
                         users'[id][f] = IF Writes(run, f) THEN run[f]
                                         ELSE users[id][f]
                     /\ \A i \in AllIds \ {id} : users'[i] = users[i]]_vars

\* two updates of u1 run beside each other: one has read the document, the
\* other has then written email and profile image, and the first now holds
\* updates that write email and cover image to the document it read before
C25_Witness ==
    \E p \in Procs :
        /\ proc[p].pc = "w_write" /\ proc[p].userId = "u1"
        /\ proc[p].user.email = "u1" /\ proc[p].user.profile_image = 0
        /\ proc[p].data.email = "e8" /\ proc[p].data.cover_image # 0
        /\ users["u1"].email = "e9" /\ users["u1"].profile_image # 0

=============================================================================
